---- MODULE Spec2Model ----
(***************************************************************************)
(* Word-Imposter (src/WI/bot.py): the game registry (GameManager), the     *)
(* per-room GameState, the lobby handlers (/play, Join, Start, /leave,     *)
(* /forcequit), the description-phase turn scheduler and the voting        *)
(* protocol (/vote, VotingDropdown.callback, tally_votes, auto_tally_votes)*)
(* for ONE room.  Every handler is a coroutine of one asyncio event loop:  *)
(* code between two awaits runs atomically, so each action below is the    *)
(* code between two suspension points of a handler.  Awaits on the chat    *)
(* platform (send, edit, fetch_user, defer) are assumed to succeed.        *)
(***************************************************************************)
EXTENDS Integers, Sequences, FiniteSets, TLC

\* Bounds of the model.
NumPlayers == 3      \* user ids 1..NumPlayers
MaxPlays == 2        \* /play invocations (each may construct one GameState)
MaxStarts == 2       \* Start-button presses that pass the precondition check
MaxVotes == 2        \* /vote invocations that open a vote
MaxJoins == 3        \* Join presses that add a player
MaxLeaves == 1       \* /leave invocations that remove a player
MaxRemoves == 2      \* remove_player calls in a row, where it is checked alone
MaxRoster == 8       \* roster size of the large-game scenario
MaxKicks == 1        \* /votekick commands that open a vote
ScenarioGames == 1   \* /play and Start presses of the one-game scenarios
ScenarioVotes == 1   \* /vote commands of the one-game voting scenario

Players == 1..NumPlayers
GameIds == 1..MaxPlays     \* the GameState object built by /play invocation h
NoGame == 0                \* games.get(channel_id) is None
None == 0                  \* Python's None in an Optional[...] attribute
Room == 1                  \* the channel id of the room

VARIABLES
    games,          \* GameManager.games[channel_id]: a GameIds member or NoGame
    used_channels,  \* channel_id in GameManager.used_channels
    game,           \* the GameState objects, by id (fields as in the source)
    settings,       \* the guild's ServerSettings
    play,           \* /play invocations: position of each handler
    sched,          \* Start-button tasks: callback -> start_game -> description phase
    timers,         \* auto_tally_votes tasks of each game, in creation order
    dropdown,       \* VotingDropdown menus delivered: <<game, recipient, option>>
    cb,             \* VotingDropdown.callback coroutines that recorded a vote and
                    \* are suspended before the everyone-voted check, per game
    tally,          \* the tally_votes coroutine of each game past the latch
    leaving,        \* /leave handlers between remove_player and the roster check
    kick,           \* the VoteKickView objects, in the order /votekick made them
    hist,           \* history: what the handlers have announced and called
    limit           \* the scenario: how many commands of each kind the users issue

env == <<settings, limit>>

vars == <<games, used_channels, game, settings, play, sched, timers, dropdown,
          cb, tally, leaving, kick, hist, limit>>

----------------------------------------------------------------------------
\* Python containers

EmptyDict == [k \in {} |-> 0]
Keys(d) == DOMAIN d
Values(d) == {d[k] : k \in DOMAIN d}
DictDel(d, k) == [x \in (DOMAIN d) \ {k} |-> d[x]]
DictPut(d, k, v) == [x \in (DOMAIN d) \cup {k} |-> IF x = k THEN v ELSE d[x]]
DictGet(d, k, dflt) == IF k \in DOMAIN d THEN d[k] ELSE dflt

max(a, b) == IF a >= b THEN a ELSE b

InList(s, x) == \E i \in 1..Len(s) : s[i] = x
ListSet(s) == {s[i] : i \in 1..Len(s)}
\* list.remove(x): deletes the first occurrence (the caller checks membership)
ListRemove(s, x) ==
    LET i == CHOOSE j \in 1..Len(s) : s[j] = x /\ \A k \in 1..(j - 1) : s[k] # x
    IN  [j \in 1..(Len(s) - 1) |-> IF j < i THEN s[j] ELSE s[j + 1]]
----------------------------------------------------------------------------
\* ServerSettings

DefaultMinPlayers == 1
DefaultMaxPlayers == 10
DefaultMaxMissedRounds == 2
DefaultRounds == 3
DefaultDescriptionTimeout == 60
DefaultVoteTimeout == 120

\* The settings a guild may have configured: the defaults of the dataclass with
\* rounds shortened, and one with a floor of two players and a single miss allowed.
DefaultSettings ==
    [min_players |-> DefaultMinPlayers, max_players |-> DefaultMaxPlayers,
     rounds |-> 1, description_timeout |-> DefaultDescriptionTimeout,
     vote_timeout |-> DefaultVoteTimeout,
     max_missed_rounds |-> DefaultMaxMissedRounds,
     multiple_imposters |-> FALSE, imposter_percent |-> 25]

StrictSettings ==
    [DefaultSettings EXCEPT !.min_players = DefaultMinPlayers + 1,
                            !.max_missed_rounds = 1]

\* ServerSettings(): the defaults of the dataclass
ServerSettings == [DefaultSettings EXCEPT !.rounds = DefaultRounds]

SettingsChoices == {DefaultSettings, StrictSettings}

\* Only a pair given together is validated.
update_refusal_pair_only(st, kwargs) ==
    IF "min_players" \in DOMAIN kwargs /\ "max_players" \in DOMAIN kwargs
       /\ kwargs["min_players"] > kwargs["max_players"]
    THEN "min_above_max"
    ELSE IF "description_timeout" \in DOMAIN kwargs /\ kwargs["description_timeout"] < 10
    THEN "description_timeout"
    ELSE IF "vote_timeout" \in DOMAIN kwargs /\ kwargs["vote_timeout"] < 10
    THEN "vote_timeout"
    ELSE ""

\* ServerConfig.update_server_settings(server_id, **kwargs): the message of the
\* validation that fails ("" when none does).  kwargs is a function from the
\* names given to their values.
update_refusal(st, kwargs) ==
    LET both == "min_players" \in DOMAIN kwargs /\ "max_players" \in DOMAIN kwargs
    IN  IF both /\ kwargs["min_players"] > kwargs["max_players"]
        THEN "min_above_max"
        ELSE IF ~both /\ "min_players" \in DOMAIN kwargs
                /\ kwargs["min_players"] > st.max_players
        THEN "min_above_current_max"
        ELSE IF ~both /\ "max_players" \in DOMAIN kwargs
                /\ kwargs["max_players"] < st.min_players
        THEN "max_below_current_min"
        ELSE IF "description_timeout" \in DOMAIN kwargs
                /\ kwargs["description_timeout"] < 10
        THEN "description_timeout"
        ELSE IF "vote_timeout" \in DOMAIN kwargs /\ kwargs["vote_timeout"] < 10
        THEN "vote_timeout"
        ELSE ""

\* update_server_settings: the loop of setattr over kwargs
apply_update(st, kwargs) ==
    [k \in DOMAIN st |-> IF k \in DOMAIN kwargs THEN kwargs[k] ELSE st[k]]

----------------------------------------------------------------------------
\* GameState

\* GameState.__init__: every attribute it assigns.  votes_tallied is NOT one of
\* them: the attribute exists only once tally_votes has set it.
GameStateInit ==
    [ joined_users |-> <<>>,
      game_started |-> FALSE,
      imposters |-> {},
      current_word |-> None,
      description_phase_started |-> FALSE,
      user_descriptions |-> EmptyDict,
      votes |-> EmptyDict,
      missed_rounds |-> EmptyDict,
      round_number |-> 0,
      start_time |-> None,
      voted_users |-> {},
      channel_id |-> None,
      vote_task |-> None,
      kicked_users |-> {},
      left_users |-> {},
      vote_status_message |-> None ]

\* A freshly constructed object: __init__ and no votes_tallied attribute.
NewGameState == GameStateInit @@ [votes_tallied |-> "unset"]

\* Line 82 left out: the votes cast FOR the removed player stay.
remove_player_keeps_votes_for(gs, player_id) ==
    [gs EXCEPT
        !.joined_users = IF InList(@, player_id) THEN ListRemove(@, player_id) ELSE @,
        !.imposters = @ \ {player_id},
        !.user_descriptions = DictDel(@, player_id),
        !.votes = DictDel(@, player_id),
        !.missed_rounds = DictDel(@, player_id),
        !.voted_users = @ \ {player_id}]

\* Line 82 without its condition: every vote is dropped.
remove_player_clears_votes(gs, player_id) ==
    [gs EXCEPT
        !.joined_users = IF InList(@, player_id) THEN ListRemove(@, player_id) ELSE @,
        !.imposters = @ \ {player_id},
        !.user_descriptions = DictDel(@, player_id),
        !.votes = EmptyDict,
        !.missed_rounds = DictDel(@, player_id),
        !.voted_users = @ \ {player_id}]

\* GameState.remove_player
remove_player(gs, player_id) ==
    LET v1 == DictDel(gs.votes, player_id)
    IN  [gs EXCEPT
            !.joined_users = IF InList(@, player_id) THEN ListRemove(@, player_id) ELSE @,
            !.imposters = @ \ {player_id},
            !.user_descriptions = DictDel(@, player_id),
            !.votes = [k \in {x \in DOMAIN v1 : v1[x] # player_id} |-> v1[k]],
            !.missed_rounds = DictDel(@, player_id),
            !.voted_users = @ \ {player_id}]

\* GameState.reset on the object: __init__ again; an attribute __init__ does not
\* name (votes_tallied) keeps its value.
reset(gs) == GameStateInit @@ [votes_tallied |-> gs.votes_tallied]

----------------------------------------------------------------------------
\* GameManager.  Every method body runs under self._lock without awaiting inside
\* it, so the lock is never contended and each body is one atomic step.  The
\* registry, the objects and their timer tasks are threaded through as a record.

Registry == [games |-> games, used_channels |-> used_channels, game |-> game,
             timers |-> timers]

\* Task.cancel() on game.vote_task: a sleeping auto_tally_votes gets CancelledError;
\* a finished task is left as it is.
cancel(T, g, task) ==
    IF task # None /\ T[g][task] = "sleeping" THEN [T EXCEPT ![g][task] = "cancelled"] ELSE T

\* The used_channels check left out.
create_game_unchecked(st) == TRUE

\* GameManager.create_game raises ValueError: the guard of the success path
create_game_allowed(st) == ~st.used_channels

\* GameManager.create_game, success path: object h is constructed and registered
create_game(st, h) ==
    [st EXCEPT !.game[h] = [NewGameState EXCEPT !.channel_id = Room],
               !.games = h,
               !.used_channels = TRUE]

\* end_game that leaves the channel in used_channels
end_game_keeps_channel(st, channel_id) ==
    IF channel_id = Room /\ st.games # NoGame
    THEN [st EXCEPT !.timers = cancel(@, st.games, st.game[st.games].vote_task),
                    !.game[st.games] = reset(@),
                    !.games = NoGame]
    ELSE st

\* end_game that leaves the registry as it is
end_game_keeps_game(st, channel_id) == st

\* end_game that leaves the vote timer of the game asleep
end_game_no_cancel(st, channel_id) ==
    IF channel_id = Room /\ st.games # NoGame
    THEN [st EXCEPT !.game[st.games] = reset(@),
                    !.games = NoGame,
                    !.used_channels = FALSE]
    ELSE st

\* GameManager.end_game
end_game(st, channel_id) ==
    IF channel_id = Room /\ st.games # NoGame
    THEN [st EXCEPT !.timers = cancel(@, st.games, st.game[st.games].vote_task),
                    !.game[st.games] = reset(@),
                    !.games = NoGame,
                    !.used_channels = FALSE]
    ELSE st

\* GameManager.can_create_game
can_create_game(st) == ~st.used_channels

SetRegistry(st) ==
    /\ games' = st.games
    /\ used_channels' = st.used_channels
    /\ game' = st.game
    /\ timers' = st.timers

----------------------------------------------------------------------------
\* History counters count 0, 1, "more".
Cap(n) == IF n < 2 THEN n + 1 ELSE n

NoTally == [pc |-> "none", voted_players |-> {}, stale |-> {}, outcome |-> "none",
            revealed |-> {}]

\* What has happened so far: nothing.
NoHistory ==
    [starts |-> [g \in GameIds |-> 0],
     phases |-> [g \in GameIds |-> 0],
     invoked |-> [g \in GameIds |-> 0],
     announced |-> [g \in GameIds |-> 0],
     ended |-> [g \in GameIds |-> 0],
     assigned |-> [g \in GameIds |-> {}],
     joins |-> 0,
     leaves |-> 0,
     kicks |-> 0,
     ending |-> {},
     seen |-> 0,
     refused |-> {},
     removed |-> None,
     again |-> FALSE,
     updated |-> ""]

\* a Start-button task that has not been created.  Of a round, `snapshot` is
\* the list `players` as the round built it, `players` the part of it the loop
\* has not reached, and `turns` the players the loop has waited for.
NoTask == [pc |-> "idle", game |-> NoGame, round_num |-> 0, players |-> {},
           player_id |-> None, player_count |-> 0, adjusted_timeout |-> 0,
           snapshot |-> {}, turns |-> {}]

\* a VoteKickView that /votekick has not made
NoView == [pc |-> "none", game |-> NoGame, target_id |-> None, votes |-> {},
           required_votes |-> 0]

\* The state after the module is loaded: an empty registry, no task.  The
\* objects /play will construct are shown as fresh ones.
Idle ==
    /\ games = NoGame
    /\ used_channels = FALSE
    /\ play = [h \in 1..MaxPlays |-> "idle"]
    /\ sched = [t \in 1..MaxStarts |-> NoTask]
    /\ timers = [g \in GameIds |-> <<>>]
    /\ dropdown = {}
    /\ cb = [g \in GameIds |-> {}]
    /\ tally = [g \in GameIds |-> NoTally]
    /\ leaving = [p \in Players |-> NoGame]
    /\ kick = [k \in 1..MaxKicks |-> NoView]
    /\ hist = NoHistory

Start ==
    /\ Idle
    /\ game = [g \in GameIds |-> NewGameState]
    /\ settings \in SettingsChoices

\* A GameView (Join and Start buttons) of object g exists once /play has sent it.
HasView(g) == play[g] = "created"

----------------------------------------------------------------------------
\* /play

\* play, up to the answer of can_create_game
PlayCheck(h) ==
    /\ play[h] = "idle"
    /\ h <= limit.plays
    /\ IF h = 1 THEN TRUE ELSE play[h - 1] # "idle"
    /\ play' = [play EXCEPT ![h] = IF can_create_game(Registry) THEN "checked" ELSE "rejected"]
    /\ UNCHANGED <<games, used_channels, game, env, sched, timers, dropdown,
                   cb, tally, leaving, kick, hist>>

\* play, the call of create_game and the lobby message
PlayCreate(h) ==
    /\ play[h] = "checked"
    /\ IF create_game_allowed(Registry)
       THEN /\ SetRegistry(create_game(Registry, h))
            /\ play' = [play EXCEPT ![h] = "created"]
       ELSE /\ play' = [play EXCEPT ![h] = "error"]
            /\ UNCHANGED <<games, used_channels, game, timers>>
    /\ UNCHANGED <<env, sched, dropdown, cb, tally, leaving, kick, hist>>

\* GameView.on_timeout of the view of object g, an hour after its last
\* interaction: end_game of the channel the object names (None once the object
\* has been reset); the view is finished
ViewTimeout(g) ==
    /\ HasView(g)
    /\ play' = [play EXCEPT ![g] = "expired"]
    /\ SetRegistry(end_game(Registry, game[g].channel_id))
    /\ UNCHANGED <<env, sched, dropdown, cb, tally, leaving, kick, hist>>

\* forcequit: both maps are cleared; no game object is reset, no task cancelled
ForceQuit ==
    /\ games # NoGame \/ used_channels
    /\ games' = NoGame
    /\ used_channels' = FALSE
    /\ UNCHANGED <<game, env, play, sched, timers, dropdown, cb,
                   tally, leaving, kick, hist>>

\* every press is taken as a first one
already_joined_never(gs, user) == FALSE

\* GameView.join_button answers "You've already joined!"
already_joined(gs, user) == InList(gs.joined_users, user)

\* GameView.join_button of the view of object g, pressed by p.  User ids are
\* interchangeable: the users that ever joined are numbered in the order of
\* their first join (hist.seen of them so far).
Join(g, p) ==
    /\ HasView(g)
    /\ games # NoGame
    /\ ~game[g].game_started
    /\ Len(game[g].joined_users) < settings.max_players
    /\ ~already_joined(game[g], p)
    /\ hist.joins < limit.joins
    /\ p <= hist.seen + 1
    /\ game' = [game EXCEPT ![g].joined_users = Append(@, p)]
    /\ hist' = [hist EXCEPT !.joins = @ + 1,
                            !.seen = IF p > @ THEN p ELSE @]
    /\ UNCHANGED <<games, used_channels, env, play, sched, timers, dropdown,
                   cb, tally, leaving, kick>>

----------------------------------------------------------------------------
\* /leave

\* leave, up to the reply "<user> has left the game."
LeaveRemove(p) ==
    /\ games # NoGame
    /\ leaving[p] = NoGame
    /\ InList(game[games].joined_users, p)
    /\ p \notin game[games].left_users
    /\ hist.leaves < limit.leaves
    /\ game' = [game EXCEPT ![games] =
                   [remove_player(@, p) EXCEPT !.left_users = @ \cup {p}]]
    /\ leaving' = [leaving EXCEPT ![p] = games]
    /\ hist' = [hist EXCEPT !.leaves = @ + 1]
    /\ UNCHANGED <<games, used_channels, env, play, sched, timers, dropdown,
                   cb, tally, kick>>

\* only an empty roster is too small
too_few_when_empty(gs) == Len(gs.joined_users) = 0

\* leave and VoteKickView.vote_kick: "Not enough players remaining. Game ending."
too_few(gs) == Len(gs.joined_users) < settings.min_players

\* leave, the roster check after the reply, and end_game of the channel
LeaveCheck(p) ==
    /\ leaving[p] # NoGame
    /\ IF too_few(game[leaving[p]])
       THEN /\ SetRegistry(end_game(Registry, Room))
            /\ hist' = [hist EXCEPT !.ending = @ \cup {leaving[p]}]
       ELSE UNCHANGED <<games, used_channels, game, timers, hist>>
    /\ leaving' = [leaving EXCEPT ![p] = NoGame]
    /\ UNCHANGED <<env, play, sched, dropdown, cb, tally, kick>>

----------------------------------------------------------------------------
\* /votekick and the "Vote to Kick" button

\* VoteKickView.__init__
\* the floor of two left out
required_votes_half(gs) == Len(gs.joined_users) \div 2

required_votes(gs) == max(2, Len(gs.joined_users) \div 2)

\* votekick: view k is made for a started game by one of its players against
\* one of its players, and sent
VoteKick(k, user, player) ==
    /\ kick[k].pc = "none"
    /\ IF k = 1 THEN TRUE ELSE kick[k - 1].pc # "none"
    /\ games # NoGame
    /\ game[games].game_started
    /\ InList(game[games].joined_users, player)
    /\ InList(game[games].joined_users, user)
    /\ kick' = [kick EXCEPT ![k] = [pc |-> "open", game |-> games,
                                    target_id |-> player, votes |-> {},
                                    required_votes |-> required_votes(game[games])]]
    /\ UNCHANGED <<games, used_channels, game, env, play, sched, timers,
                   dropdown, cb, tally, leaving, hist>>

\* VoteKickView.vote_kick refuses the press
kick_vote_refused(view, gs, user) ==
    \/ ~InList(gs.joined_users, user)
    \/ user \in view.votes
    \/ view.target_id \in gs.kicked_users

\* VoteKickView.vote_kick, up to its first await: the vote is counted and, with
\* the required number reached, the target is removed and marked as kicked
KickVote(k, user) ==
    LET view == kick[k]
        g == view.game
        votes == view.votes \cup {user}
    IN  /\ view.pc \in {"open", "kicked"}
        /\ ~kick_vote_refused(view, game[g], user)
        /\ IF view.required_votes - Cardinality(votes) <= 0
           THEN /\ game' = [game EXCEPT ![g] =
                              [remove_player(@, view.target_id)
                                 EXCEPT !.kicked_users = @ \cup {view.target_id}]]
                /\ kick' = [kick EXCEPT ![k].votes = votes, ![k].pc = "kicked"]
                /\ hist' = [hist EXCEPT !.kicks = @ + 1]
           ELSE /\ kick' = [kick EXCEPT ![k].votes = votes]
                /\ UNCHANGED <<game, hist>>
        /\ UNCHANGED <<games, used_channels, env, play, sched, timers,
                       dropdown, cb, tally, leaving>>

\* VoteKickView.vote_kick after "<target> has been kicked from the game.": the
\* roster check, end_game of the channel, and self.stop()
KickCheck(k) ==
    /\ kick[k].pc = "kicked"
    /\ IF too_few(game[kick[k].game])
       THEN /\ SetRegistry(end_game(Registry, Room))
            /\ hist' = [hist EXCEPT !.ending = @ \cup {kick[k].game}]
       ELSE UNCHANGED <<games, used_channels, game, timers, hist>>
    /\ kick' = [kick EXCEPT ![k].pc = "stopped"]
    /\ UNCHANGED <<env, play, sched, dropdown, cb, tally, leaving>>

----------------------------------------------------------------------------
\* Start button, start_game and the description phase

\* start_game: the number of imposters drawn
num_imposters(gs) ==
    IF settings.multiple_imposters /\ Len(gs.joined_users) >= 6
    THEN LET n == (Len(gs.joined_users) * settings.imposter_percent) \div 100
         IN  IF n > 1 THEN n ELSE 1
    ELSE 1

\* StartGameButton.callback refuses the press
start_refused(gs) ==
    \/ Len(gs.joined_users) < settings.min_players
    \/ gs.game_started

\* StartGameButton.callback, up to the await of interaction.response.defer()
StartPress(t, g) ==
    /\ sched[t].pc = "idle"
    /\ t <= limit.starts
    /\ IF t = 1 THEN TRUE ELSE sched[t - 1].pc # "idle"
    /\ HasView(g)
    /\ ~start_refused(game[g])
    /\ sched' = [sched EXCEPT ![t].pc = "deferred", ![t].game = g]
    /\ UNCHANGED <<games, used_channels, game, env, play, timers, dropdown,
                   cb, tally, leaving, kick, hist>>

\* start_game, up to the first await: the flags and the roles.  random.sample
\* raises ValueError on a roster smaller than the sample, after game_started and
\* start_time are set; StartGameButton.callback catches it and the task ends.
StartGame(t) ==
    LET g == sched[t].game
        gs == game[g]
    IN  /\ sched[t].pc = "deferred"
        /\ IF Len(gs.joined_users) < num_imposters(gs)
           THEN /\ game' = [game EXCEPT ![g].game_started = TRUE,
                                        ![g].start_time = 1]
                /\ sched' = [sched EXCEPT ![t].pc = "crashed"]
                /\ UNCHANGED hist
           ELSE \E imps \in {x \in SUBSET ListSet(gs.joined_users) :
                                 Cardinality(x) = num_imposters(gs)} :
                   /\ game' = [game EXCEPT ![g].game_started = TRUE,
                                           ![g].start_time = 1,
                                           ![g].imposters = imps,
                                           ![g].current_word = 1]
                   /\ sched' = [sched EXCEPT ![t].pc = "started"]
                   /\ hist' = [hist EXCEPT !.starts[g] = Cap(@),
                                           !.assigned[g] = imps]
        /\ UNCHANGED <<games, used_channels, env, play, timers, dropdown,
                       cb, tally, leaving, kick>>

\* the adjustment is added whatever its sign
adjusted_timeout_unclamped(base_timeout, player_count) ==
    base_timeout + (player_count - 5) * 10

\* start_description_phase: the dynamic timeout
adjusted_timeout(base_timeout, player_count) ==
    LET timeout_adjustment == max(0, (player_count - 5) * 10)
    IN  base_timeout + timeout_adjustment

\* start_description_phase, up to "Description phase starting!"
BeginPhase(t) ==
    LET g == sched[t].game
        player_count == Len(game[g].joined_users)
    IN  /\ sched[t].pc = "started"
        /\ game' = [game EXCEPT ![g].description_phase_started = TRUE]
        /\ sched' = [sched EXCEPT
                       ![t].pc = "round", ![t].round_num = 0,
                       ![t].player_count = player_count,
                       ![t].adjusted_timeout =
                           adjusted_timeout(settings.description_timeout,
                                            player_count)]
        /\ hist' = [hist EXCEPT !.phases[g] = Cap(@)]
        /\ UNCHANGED <<games, used_channels, env, play, timers, dropdown,
                       cb, tally, leaving, kick>>

\* the player waited for stays among those still to come
turn_outcomes_keeps_reached(joined_users, players) ==
    LET gone == {x \in players : ~InList(joined_users, x)}
        here == players \ gone
    IN  IF here = {}
        THEN {[wait |-> FALSE, pid |-> None, rest |-> {}]}
        ELSE {[wait |-> TRUE, pid |-> x, rest |-> players \ skipped] :
                 x \in here, skipped \in SUBSET gone}

\* The player loop over the shuffled snapshot `players`.  random.shuffle makes
\* every order possible, so the players not yet reached are kept as a set and
\* the next one reached is any of them.  A player reached while not in
\* joined_users is skipped (`continue`); the others reached are waited for.
\* The result: the scheduler either waits for `pid` with `rest` still to come,
\* or has exhausted the snapshot.
turn_outcomes(joined_users, players) ==
    LET gone == {x \in players : ~InList(joined_users, x)}
        here == players \ gone
    IN  IF here = {}
        THEN {[wait |-> FALSE, pid |-> None, rest |-> {}]}
        ELSE {[wait |-> TRUE, pid |-> x, rest |-> players \ (skipped \cup {x})] :
                 x \in here, skipped \in SUBSET gone}

\* the scheduler task after one more pass of the player loop
advance(task, o) ==
    IF o.wait
    THEN [task EXCEPT !.pc = "waiting", !.player_id = o.pid, !.players = o.rest,
                      !.turns = @ \cup {o.pid}]
    ELSE [task EXCEPT !.pc = "round", !.round_num = @ + 1, !.player_id = None,
                      !.players = {}]

\* the head of the round loop: round_number, the snapshot of the roster, its
\* shuffle and the first turn; after the last round, "Description phase complete!"
BeginRound(t) ==
    LET g == sched[t].game
    IN  /\ sched[t].pc = "round"
        /\ IF sched[t].round_num < settings.rounds
           THEN /\ game' = [game EXCEPT ![g].round_number = sched[t].round_num + 1]
                /\ \E o \in turn_outcomes(game[g].joined_users,
                                          ListSet(game[g].joined_users)) :
                      sched' = [sched EXCEPT ![t] =
                                  advance([@ EXCEPT !.snapshot = ListSet(game[g].joined_users),
                                                    !.turns = {}], o)]
           ELSE /\ sched' = [sched EXCEPT ![t].pc = "done"]
                /\ UNCHANGED game
        /\ UNCHANGED <<games, used_channels, env, play, timers, dropdown,
                       cb, tally, leaving, kick, hist>>

\* bot.wait_for returns a message of player_id in the channel: it is appended,
\* and the loop goes on to the next turn
Describe(t) ==
    LET g == sched[t].game
        pid == sched[t].player_id
    IN  /\ sched[t].pc = "waiting"
        /\ game' = [game EXCEPT ![g].user_descriptions =
                       DictPut(@, pid, Append(DictGet(@, pid, <<>>), game[g].round_number))]
        /\ \E o \in turn_outcomes(game[g].joined_users, sched[t].players) :
              sched' = [sched EXCEPT ![t] = advance(@, o)]
        /\ UNCHANGED <<games, used_channels, env, play, timers, dropdown,
                       cb, tally, leaving, kick, hist>>

\* the missed-round count written by the timeout branch
missed_after(gs, pid) == DictGet(gs.missed_rounds, pid, 0) + 1

\* the timeout branch removes the player
inactive(n) == n >= settings.max_missed_rounds

\* bot.wait_for raises TimeoutError: the miss is counted and, at
\* max_missed_rounds, joined_users.remove(player_id), which raises ValueError
\* for a player no longer in the list (the task ends in the callback's except).
TurnTimeout(t) ==
    LET g == sched[t].game
        pid == sched[t].player_id
        gs == game[g]
        n == missed_after(gs, pid)
    IN  /\ sched[t].pc = "waiting"
        /\ IF inactive(n) /\ ~InList(gs.joined_users, pid)
           THEN /\ game' = [game EXCEPT ![g].missed_rounds = DictPut(@, pid, n)]
                /\ sched' = [sched EXCEPT ![t].pc = "crashed"]
           ELSE /\ game' = [game EXCEPT
                              ![g].missed_rounds = DictPut(@, pid, n),
                              ![g].joined_users =
                                  IF inactive(n) THEN ListRemove(@, pid) ELSE @]
                /\ \E o \in turn_outcomes(game'[g].joined_users, sched[t].players) :
                      sched' = [sched EXCEPT ![t] = advance(@, o)]
        /\ UNCHANGED <<games, used_channels, env, play, timers, dropdown,
                       cb, tally, leaving, kick, hist>>

----------------------------------------------------------------------------
\* /vote, VotingDropdown.callback, tally_votes, auto_tally_votes

\* vote: the command is refused
vote_refused ==
    \/ games = NoGame
    \/ ~game[games].game_started
    \/ ~game[games].description_phase_started

\* vote: the status message, the auto-tally task (the previous one, if any, is
\* neither awaited nor cancelled) and one dropdown per roster member, each
\* offering the roster of this moment
Vote ==
    LET g == games
        roster == ListSet(game[g].joined_users)
    IN  /\ ~vote_refused
        /\ Len(timers[g]) < limit.votes
        /\ timers' = [timers EXCEPT ![g] = Append(@, "sleeping")]
        /\ game' = [game EXCEPT ![g].vote_status_message = 1,
                                ![g].vote_task = Len(timers[g]) + 1]
        /\ dropdown' = dropdown \cup {<<g, u, o>> : u \in roster, o \in roster}
        /\ UNCHANGED <<games, used_channels, env, play, sched, cb, tally,
                       leaving, kick, hist>>

\* the second check left out: a recorded vote may be replaced
vote_refusal_no_dup_check(gs, user) ==
    IF ~InList(gs.joined_users, user) THEN "not_in_game" ELSE ""

\* the first check left out: anyone holding a dropdown may vote
vote_refusal_no_member_check(gs, user) ==
    IF user \in DOMAIN gs.votes THEN "already_voted" ELSE ""

\* VotingDropdown.callback: the reply to a user who may not vote ("" when the
\* vote is accepted)
vote_refusal(gs, user) ==
    IF ~InList(gs.joined_users, user) THEN "not_in_game"
    ELSE IF user \in DOMAIN gs.votes THEN "already_voted"
    ELSE ""

\* VotingDropdown.callback, up to the first await, when both checks pass: the
\* vote is recorded
CastVote(g, user, voted_user_id) ==
    /\ <<g, user, voted_user_id>> \in dropdown
    /\ vote_refusal(game[g], user) = ""
    /\ game' = [game EXCEPT ![g].votes = DictPut(@, user, voted_user_id),
                            ![g].voted_users = @ \cup {user}]
    /\ cb' = [cb EXCEPT ![g] = @ \cup {user}]
    /\ UNCHANGED <<games, used_channels, env, play, sched, timers, dropdown,
                   tally, leaving, kick, hist>>

\* VotingDropdown.callback when a check fails: the reply, and return
VoteRefused(g, user) ==
    /\ \E o \in Players : <<g, user, o>> \in dropdown
    /\ vote_refusal(game[g], user) # ""
    /\ hist' = [hist EXCEPT !.refused = @ \cup {vote_refusal(game[g], user)}]
    /\ UNCHANGED <<games, used_channels, game, env, play, sched, timers, dropdown,
                   cb, tally, leaving, kick>>

\* tally_votes: vote_counts and the players with the most votes
vote_counts(votes) ==
    [t \in Values(votes) |-> Cardinality({k \in DOMAIN votes : votes[k] = t})]

voted_players(votes) ==
    LET c == vote_counts(votes)
    IN  {t \in DOMAIN c : \A u \in DOMAIN c : c[u] <= c[t]}

\* a tie is decided for the players when any top-voted player is an imposter
outcome_any_top(voted, imposters) ==
    IF voted \cap imposters # {} THEN "caught" ELSE "imposters_win"

\* tally_votes: len(voted_players) == 1 and voted_players[0] in game.imposters
outcome(voted, imposters) ==
    IF Cardinality(voted) = 1 /\ voted \subseteq imposters
    THEN "caught" ELSE "imposters_win"

\* tally_votes: getattr(game, 'votes_tallied', False)
already_tallied(gs) == gs.votes_tallied = "true"

\* tally_votes(channel, game) up to its first await, on the registry st: behind
\* the latch nothing happens; else the latch is set and either "No votes were
\* cast!" is sent, or the votes are counted.  Yields the objects and the
\* coroutine's position; `stale` notes the vote targets counted that were not
\* in joined_users at that moment.
tally_votes(gm, tl, h, g) ==
    IF already_tallied(gm[g])
    THEN [game |-> gm, tally |-> tl, hist |-> [h EXCEPT !.invoked[g] = Cap(@)]]
    ELSE IF DOMAIN gm[g].votes = {}
    THEN [game |-> [gm EXCEPT ![g].votes_tallied = "true"],
          tally |-> [tl EXCEPT ![g] = [pc |-> "sent", voted_players |-> {},
                                       stale |-> {}, outcome |-> "no_votes",
                                       revealed |-> {}]],
          hist |-> [h EXCEPT !.invoked[g] = Cap(@), !.announced[g] = Cap(@)]]
    ELSE [game |-> [gm EXCEPT ![g].votes_tallied = "true"],
          tally |-> [tl EXCEPT ![g] = [pc |-> "counted",
                                       voted_players |-> voted_players(gm[g].votes),
                                       stale |-> Values(gm[g].votes)
                                                    \ ListSet(gm[g].joined_users),
                                       outcome |-> "none", revealed |-> {}]],
          hist |-> [h EXCEPT !.invoked[g] = Cap(@)]]

\* VotingDropdown.callback after the confirmation: the status message is
\* edited (AttributeError on None ends the callback in its except), and when
\* everyone has voted the timer is cancelled and tally_votes is called
everyone_voted(gs) == Cardinality(DOMAIN gs.votes) = Len(gs.joined_users)

VoteRecorded(g, user) ==
    /\ user \in cb[g]
    /\ cb' = [cb EXCEPT ![g] = @ \ {user}]
    /\ IF game[g].vote_status_message # None /\ everyone_voted(game[g])
       THEN LET r == tally_votes(game, tally, hist, g)
            IN  /\ timers' = cancel(timers, g, game[g].vote_task)
                /\ game' = r.game
                /\ tally' = r.tally
                /\ hist' = r.hist
       ELSE UNCHANGED <<game, timers, tally, hist>>
    /\ UNCHANGED <<games, used_channels, env, play, sched, dropdown, leaving, kick>>

\* tally_votes after the fetch_user awaits: the outcome, the imposters and the
\* word are read from the game object now, and the duration from start_time
\* (TypeError on None: the results are never sent); then the results are sent
TallyAnnounce(g) ==
    /\ tally[g].pc = "counted"
    /\ IF game[g].start_time = None
       THEN /\ tally' = [tally EXCEPT ![g].pc = "crashed"]
            /\ UNCHANGED hist
       ELSE /\ tally' = [tally EXCEPT
                           ![g].pc = "sent",
                           ![g].outcome = outcome(tally[g].voted_players,
                                                  game[g].imposters),
                           ![g].revealed = game[g].imposters]
            /\ hist' = [hist EXCEPT !.announced[g] = Cap(@)]
    /\ UNCHANGED <<games, used_channels, game, env, play, sched, timers,
                   dropdown, cb, leaving, kick>>

\* tally_votes, last line: end_game(channel.id)
TallyEnd(g) ==
    /\ tally[g].pc = "sent"
    /\ tally' = [tally EXCEPT ![g].pc = "done"]
    /\ SetRegistry(end_game(Registry, Room))
    /\ hist' = [hist EXCEPT !.ended[g] = Cap(@)]
    /\ UNCHANGED <<env, play, sched, dropdown, cb, leaving, kick>>

\* auto_tally_votes after asyncio.sleep(vote_timeout).  game.votes_tallied is
\* read as a plain attribute: AttributeError while tally_votes has never set
\* it (caught by `except Exception`, printed).  The attribute is never False.
TimerFire(g, i) ==
    /\ i \in 1..Len(timers[g])
    /\ timers[g][i] = "sleeping"
    /\ IF game[g].game_started /\ game[g].votes_tallied = "unset"
       THEN /\ timers' = [timers EXCEPT ![g][i] = "fired_error"]
            /\ UNCHANGED <<game, tally, hist>>
       ELSE IF game[g].game_started /\ game[g].votes_tallied = "false"
       THEN LET r == tally_votes(game, tally, hist, g)
            IN  /\ timers' = [timers EXCEPT ![g][i] = "fired"]
                /\ game' = r.game
                /\ tally' = r.tally
                /\ hist' = r.hist
       ELSE /\ timers' = [timers EXCEPT ![g][i] = "fired"]
            /\ UNCHANGED <<game, tally, hist>>
    /\ UNCHANGED <<games, used_channels, env, play, sched, dropdown, cb, leaving, kick>>

\* auto_tally_votes, cancelled while asleep: the CancelledError handler reads
\* game.votes_tallied in the same way
TimerCancelled(g, i) ==
    /\ i \in 1..Len(timers[g])
    /\ timers[g][i] = "cancelled"
    /\ IF game[g].votes_tallied = "unset"
       THEN /\ timers' = [timers EXCEPT ![g][i] = "cancel_error"]
            /\ UNCHANGED <<game, tally, hist>>
       ELSE IF game[g].votes_tallied = "false" /\ everyone_voted(game[g])
       THEN LET r == tally_votes(game, tally, hist, g)
            IN  /\ timers' = [timers EXCEPT ![g][i] = "closed"]
                /\ game' = r.game
                /\ tally' = r.tally
                /\ hist' = r.hist
       ELSE /\ timers' = [timers EXCEPT ![g][i] = "closed"]
            /\ UNCHANGED <<game, tally, hist>>
    /\ UNCHANGED <<games, used_channels, env, play, sched, dropdown, cb, leaving, kick>>

----------------------------------------------------------------------------
\* Specifications.  Spec is the room with every handler, for the largest
\* scenario; the others are the same handlers in a narrower scenario (fewer
\* commands issued, as `limit` says, and only the handlers listed).

Scenario(plays, starts, joins, leaves, votes) ==
    [plays |-> plays, starts |-> starts, joins |-> joins, leaves |-> leaves,
     votes |-> votes]

Init ==
    /\ Start
    /\ limit = Scenario(MaxPlays, MaxStarts, MaxJoins, MaxLeaves, MaxVotes)

Next ==
    \/ \E h \in 1..MaxPlays : PlayCheck(h)
    \/ \E h \in 1..MaxPlays : PlayCreate(h)
    \/ ForceQuit
    \/ \E g \in GameIds, p \in Players : Join(g, p)
    \/ \E p \in Players : LeaveRemove(p)
    \/ \E p \in Players : LeaveCheck(p)
    \/ \E t \in 1..MaxStarts, g \in GameIds : StartPress(t, g)
    \/ \E t \in 1..MaxStarts : StartGame(t)
    \/ \E t \in 1..MaxStarts : BeginPhase(t)
    \/ \E t \in 1..MaxStarts : BeginRound(t)
    \/ \E t \in 1..MaxStarts : Describe(t)
    \/ \E t \in 1..MaxStarts : TurnTimeout(t)
    \/ Vote
    \/ \E g \in GameIds, u \in Players, o \in Players : CastVote(g, u, o)
    \/ \E g \in GameIds, u \in Players : VoteRefused(g, u)
    \/ \E g \in GameIds, u \in Players : VoteRecorded(g, u)
    \/ \E g \in GameIds : TallyAnnounce(g)
    \/ \E g \in GameIds : TallyEnd(g)
    \/ \E g \in GameIds, i \in 1..MaxVotes : TimerFire(g, i)
    \/ \E g \in GameIds, i \in 1..MaxVotes : TimerCancelled(g, i)

Spec == Init /\ [][Next]_vars

\* No turn scheduler is running: none was started, or each has announced
\* "Description phase complete!" or has ended in an exception.
PhaseOver == \A t \in 1..MaxStarts : sched[t].pc \in {"idle", "done", "crashed"}

\* The voting scenario: a guild that requires two players, one game whose
\* players all describe in time, /vote issued once, after the description
\* phase, and one /leave at any moment.
InitVoting ==
    /\ Start
    /\ settings = StrictSettings
    /\ limit = Scenario(ScenarioGames, ScenarioGames, NumPlayers, MaxLeaves, ScenarioVotes)

NextVoting ==
    \/ \E h \in 1..MaxPlays : PlayCheck(h)
    \/ \E h \in 1..MaxPlays : PlayCreate(h)
    \/ \E g \in GameIds, p \in Players : Join(g, p)
    \/ \E p \in Players : LeaveRemove(p)
    \/ \E p \in Players : LeaveCheck(p)
    \/ \E t \in 1..MaxStarts, g \in GameIds : StartPress(t, g)
    \/ \E t \in 1..MaxStarts : StartGame(t)
    \/ \E t \in 1..MaxStarts : BeginPhase(t)
    \/ \E t \in 1..MaxStarts : BeginRound(t)
    \/ \E t \in 1..MaxStarts : Describe(t)
    \/ PhaseOver /\ Vote
    \/ \E g \in GameIds, u \in Players, o \in Players : CastVote(g, u, o)
    \/ \E g \in GameIds, u \in Players : VoteRefused(g, u)
    \/ \E g \in GameIds, u \in Players : VoteRecorded(g, u)
    \/ \E g \in GameIds : TallyAnnounce(g)
    \/ \E g \in GameIds : TallyEnd(g)
    \/ \E g \in GameIds, i \in 1..MaxVotes : TimerFire(g, i)
    \/ \E g \in GameIds, i \in 1..MaxVotes : TimerCancelled(g, i)

SpecVoting == InitVoting /\ [][NextVoting]_vars

\* The lobby scenario: two /play, /forcequit, joins, leaves and two Start
\* presses, each followed up to the start of its description phase.
InitLobby ==
    /\ Start
    /\ limit = Scenario(MaxPlays, MaxStarts, MaxJoins, MaxLeaves, 0)

NextLobby ==
    \/ \E h \in 1..MaxPlays : PlayCheck(h)
    \/ \E h \in 1..MaxPlays : PlayCreate(h)
    \/ ForceQuit
    \/ \E g \in GameIds, p \in Players : Join(g, p)
    \/ \E p \in Players : LeaveRemove(p)
    \/ \E p \in Players : LeaveCheck(p)
    \/ \E t \in 1..MaxStarts, g \in GameIds : StartPress(t, g)
    \/ \E t \in 1..MaxStarts : StartGame(t)
    \/ \E t \in 1..MaxStarts : BeginPhase(t)

SpecLobby == InitLobby /\ [][NextLobby]_vars

\* The description-phase scenario: one game, its turn scheduler with messages
\* and timeouts, and leaves at any moment.
InitPhase ==
    /\ Start
    /\ limit = Scenario(ScenarioGames, ScenarioGames, NumPlayers, MaxLeaves, 0)

NextPhase ==
    \/ \E h \in 1..MaxPlays : PlayCheck(h)
    \/ \E h \in 1..MaxPlays : PlayCreate(h)
    \/ \E g \in GameIds, p \in Players : Join(g, p)
    \/ \E p \in Players : LeaveRemove(p)
    \/ \E p \in Players : LeaveCheck(p)
    \/ \E t \in 1..MaxStarts, g \in GameIds : StartPress(t, g)
    \/ \E t \in 1..MaxStarts : StartGame(t)
    \/ \E t \in 1..MaxStarts : BeginPhase(t)
    \/ \E t \in 1..MaxStarts : BeginRound(t)
    \/ \E t \in 1..MaxStarts : Describe(t)
    \/ \E t \in 1..MaxStarts : TurnTimeout(t)

SpecPhase == InitPhase /\ [][NextPhase]_vars

\* The description-phase scenario with its scheduling: the event loop resumes
\* a task whose awaited send has completed, and every bot.wait_for ends, by a
\* message of the player or by its timeout.
FairPhase ==
    /\ InitPhase
    /\ [][NextPhase]_vars
    /\ \A t \in 1..MaxStarts :
          /\ WF_vars(StartGame(t))
          /\ WF_vars(BeginPhase(t))
          /\ WF_vars(BeginRound(t))
          /\ WF_vars(Describe(t) \/ TurnTimeout(t))

\* remove_player as a function: a registered, started game whose fields are
\* drawn from the values below, and calls of remove_player on it.
Rosters ==
    UNION {{r \in [1..n -> Players] : \A i, j \in 1..n : r[i] = r[j] => i = j} :
              n \in 0..NumPlayers}

Small(S) == {x \in SUBSET S : Cardinality(x) <= 1}

InitRemove ==
    /\ Idle
    /\ settings = DefaultSettings
    /\ limit = Scenario(0, 0, 0, MaxRemoves, 0)
    /\ \E r \in Rosters, i \in Small(Players), d \in Small(Players),
          m \in Small(Players), w \in Small(Players),
          v \in UNION {[S -> Players] : S \in SUBSET Players} :
          game = [g \in GameIds |->
                    IF g = 1
                    THEN [NewGameState EXCEPT
                            !.channel_id = Room, !.game_started = TRUE,
                            !.start_time = 1, !.current_word = 1,
                            !.description_phase_started = TRUE,
                            !.joined_users = r, !.imposters = i,
                            !.user_descriptions = [k \in d |-> <<1>>],
                            !.missed_rounds = [k \in m |-> 1],
                            !.votes = v, !.voted_users = DOMAIN v \cup w]
                    ELSE NewGameState]

\* game.remove_player(player_id) on the first object, as leave and vote_kick call it
RemovePlayerCall(player_id) ==
    /\ hist.leaves < limit.leaves
    /\ game' = [game EXCEPT ![1] = remove_player(@, player_id)]
    /\ hist' = [hist EXCEPT !.leaves = @ + 1, !.removed = player_id,
                            !.again = (hist.removed = player_id)]
    /\ UNCHANGED <<games, used_channels, env, play, sched, timers, dropdown, cb,
                   tally, leaving, kick>>

NextRemove == \E p \in Players : RemovePlayerCall(p)

SpecRemove == InitRemove /\ [][NextRemove]_vars

\* tally_votes as a function of the game it is given: a started game with a
\* vote open whose roster, imposters and votes are drawn from the values
\* below, registered or already dropped from the registry (forcequit), and one
\* call of tally_votes on it, run to its end.
VoteMaps == UNION {[S -> Players] : S \in SUBSET Players}

InitTally ==
    /\ settings = DefaultSettings
    /\ limit = Scenario(0, 0, 0, 0, 0)
    /\ games \in {1, NoGame}
    /\ used_channels = (games # NoGame)
    /\ play = [h \in 1..MaxPlays |-> IF h = 1 THEN "created" ELSE "idle"]
    /\ sched = [t \in 1..MaxStarts |->
                  IF t = 1 THEN [NoTask EXCEPT !.pc = "done", !.game = 1,
                                               !.round_num = settings.rounds]
                  ELSE NoTask]
    /\ timers = [g \in GameIds |-> IF g = 1 THEN <<"cancelled">> ELSE <<>>]
    /\ dropdown = {}
    /\ cb = [g \in GameIds |-> {}]
    /\ tally = [g \in GameIds |-> NoTally]
    /\ leaving = [p \in Players |-> NoGame]
    /\ kick = [k \in 1..MaxKicks |-> NoView]
    /\ \E r \in Rosters, i \in SUBSET Players, v \in VoteMaps :
          /\ hist = [NoHistory EXCEPT !.starts[1] = 1, !.phases[1] = 1,
                                      !.assigned[1] = i]
          /\ game = [g \in GameIds |->
                       IF g = 1
                       THEN [NewGameState EXCEPT
                               !.channel_id = Room, !.game_started = TRUE,
                               !.start_time = 1, !.current_word = 1,
                               !.description_phase_started = TRUE,
                               !.joined_users = r, !.imposters = i,
                               !.votes = v, !.voted_users = DOMAIN v,
                               !.vote_status_message = 1, !.vote_task = 1]
                       ELSE NewGameState]

\* tally_votes(channel, game) is called on the first object
TallyCall(g) ==
    /\ g = 1
    /\ tally[g].pc = "none"
    /\ hist.invoked[g] = 0
    /\ LET r == tally_votes(game, tally, hist, g)
       IN  /\ game' = r.game
           /\ tally' = r.tally
           /\ hist' = r.hist
    /\ UNCHANGED <<games, used_channels, env, play, sched, timers, dropdown,
                   cb, leaving, kick>>

NextTally ==
    \/ \E g \in GameIds : TallyCall(g)
    \/ \E g \in GameIds : TallyAnnounce(g)
    \/ \E g \in GameIds : TallyEnd(g)

SpecTally == InitTally /\ [][NextTally]_vars

\* The stale-handler scenario: the registered first game, drawn as for
\* InitTally, with its tally and the timeout of its view still to come, while
\* /forcequit and a second /play are issued.
InitStale ==
    /\ settings = DefaultSettings
    /\ limit = Scenario(MaxPlays, 0, 0, 0, 0)
    /\ games = 1
    /\ used_channels = TRUE
    /\ play = [h \in 1..MaxPlays |-> IF h = 1 THEN "created" ELSE "idle"]
    /\ sched = [t \in 1..MaxStarts |->
                  IF t = 1 THEN [NoTask EXCEPT !.pc = "done", !.game = 1,
                                               !.round_num = settings.rounds]
                  ELSE NoTask]
    /\ timers = [g \in GameIds |-> IF g = 1 THEN <<"cancelled">> ELSE <<>>]
    /\ dropdown = {}
    /\ cb = [g \in GameIds |-> {}]
    /\ tally = [g \in GameIds |-> NoTally]
    /\ leaving = [p \in Players |-> NoGame]
    /\ kick = [k \in 1..MaxKicks |-> NoView]
    /\ \E r \in Rosters, i \in SUBSET Players, v \in VoteMaps :
          /\ hist = [NoHistory EXCEPT !.starts[1] = 1, !.phases[1] = 1,
                                      !.assigned[1] = i]
          /\ game = [g \in GameIds |->
                       IF g = 1
                       THEN [NewGameState EXCEPT
                               !.channel_id = Room, !.game_started = TRUE,
                               !.start_time = 1, !.current_word = 1,
                               !.description_phase_started = TRUE,
                               !.joined_users = r, !.imposters = i,
                               !.votes = v, !.voted_users = DOMAIN v,
                               !.vote_status_message = 1, !.vote_task = 1]
                       ELSE NewGameState]

NextStale ==
    \/ \E g \in GameIds : TallyCall(g)
    \/ \E g \in GameIds : TallyAnnounce(g)
    \/ \E g \in GameIds : TallyEnd(g)
    \/ \E g \in GameIds : ViewTimeout(g)
    \/ ForceQuit
    \/ \E h \in 1..MaxPlays : PlayCheck(h)
    \/ \E h \in 1..MaxPlays : PlayCreate(h)

SpecStale == InitStale /\ [][NextStale]_vars

\* The repeated-vote scenario: one started game whose description phase is
\* complete, with any roster start_game accepts and one of its players as the
\* imposter, and /vote issued up to MaxVotes times.
InitRevote ==
    /\ settings = DefaultSettings
    /\ limit = Scenario(0, 0, 0, 0, MaxVotes)
    /\ games = 1
    /\ used_channels = TRUE
    /\ play = [h \in 1..MaxPlays |-> IF h = 1 THEN "created" ELSE "idle"]
    /\ sched = [t \in 1..MaxStarts |->
                  IF t = 1 THEN [NoTask EXCEPT !.pc = "done", !.game = 1,
                                               !.round_num = settings.rounds]
                  ELSE NoTask]
    /\ timers = [g \in GameIds |-> <<>>]
    /\ dropdown = {}
    /\ cb = [g \in GameIds |-> {}]
    /\ tally = [g \in GameIds |-> NoTally]
    /\ leaving = [p \in Players |-> NoGame]
    /\ kick = [k \in 1..MaxKicks |-> NoView]
    /\ \E r \in {x \in Rosters : Len(x) >= settings.min_players},
          i \in SUBSET Players :
          /\ i \subseteq ListSet(r)
          /\ Cardinality(i) = num_imposters(NewGameState)
          /\ hist = [NoHistory EXCEPT !.starts[1] = 1, !.phases[1] = 1,
                                      !.assigned[1] = i]
          /\ game = [g \in GameIds |->
                       IF g = 1
                       THEN [NewGameState EXCEPT
                               !.channel_id = Room, !.game_started = TRUE,
                               !.start_time = 1, !.current_word = 1,
                               !.description_phase_started = TRUE,
                               !.joined_users = r, !.imposters = i]
                       ELSE NewGameState]

NextRevote ==
    \/ Vote
    \/ \E g \in GameIds, u \in Players, o \in Players : CastVote(g, u, o)
    \/ \E g \in GameIds, u \in Players : VoteRefused(g, u)
    \/ \E g \in GameIds, u \in Players : VoteRecorded(g, u)
    \/ \E g \in GameIds : TallyAnnounce(g)
    \/ \E g \in GameIds : TallyEnd(g)
    \/ \E g \in GameIds, i \in 1..MaxVotes : TimerFire(g, i)
    \/ \E g \in GameIds, i \in 1..MaxVotes : TimerCancelled(g, i)

SpecRevote == InitRevote /\ [][NextRevote]_vars

\* The inactivity scenario: the description phase of one game with the
\* settings of the dataclass (three rounds, removal at the second miss),
\* messages and timeouts, and one /leave at any moment.
InitMiss ==
    /\ Idle
    /\ game = [g \in GameIds |-> NewGameState]
    /\ settings = ServerSettings
    /\ limit = Scenario(ScenarioGames, ScenarioGames, NumPlayers, MaxLeaves, 0)

SpecMiss == InitMiss /\ [][NextPhase]_vars

\* The inactivity scenario with a second /play: after the game has ended, a
\* new one is created in the room while the Join button of the first message
\* and the task of the first Start are still there.
InitReplay ==
    /\ Idle
    /\ game = [g \in GameIds |-> NewGameState]
    /\ settings = ServerSettings
    /\ limit = Scenario(MaxPlays, ScenarioGames, MaxJoins, MaxLeaves, 0)

SpecReplay == InitReplay /\ [][NextPhase]_vars

\* The early-vote scenario: one game with the default settings and nobody
\* leaving, its description phase with messages and timeouts, and /vote
\* issued once at any moment, with the votes and the tally that follow.
InitEarly ==
    /\ Idle
    /\ game = [g \in GameIds |-> NewGameState]
    /\ settings = DefaultSettings
    /\ limit = Scenario(ScenarioGames, ScenarioGames, NumPlayers, 0, ScenarioVotes)

NextEarly ==
    \/ \E h \in 1..MaxPlays : PlayCheck(h)
    \/ \E h \in 1..MaxPlays : PlayCreate(h)
    \/ \E g \in GameIds, p \in Players : Join(g, p)
    \/ \E t \in 1..MaxStarts, g \in GameIds : StartPress(t, g)
    \/ \E t \in 1..MaxStarts : StartGame(t)
    \/ \E t \in 1..MaxStarts : BeginPhase(t)
    \/ \E t \in 1..MaxStarts : BeginRound(t)
    \/ \E t \in 1..MaxStarts : Describe(t)
    \/ \E t \in 1..MaxStarts : TurnTimeout(t)
    \/ Vote
    \/ \E g \in GameIds, u \in Players, o \in Players : CastVote(g, u, o)
    \/ \E g \in GameIds, u \in Players : VoteRefused(g, u)
    \/ \E g \in GameIds, u \in Players : VoteRecorded(g, u)
    \/ \E g \in GameIds : TallyAnnounce(g)
    \/ \E g \in GameIds : TallyEnd(g)
    \/ \E g \in GameIds, i \in 1..MaxVotes : TimerFire(g, i)
    \/ \E g \in GameIds, i \in 1..MaxVotes : TimerCancelled(g, i)

SpecEarly == InitEarly /\ [][NextEarly]_vars

\* The roster scenario: one game from its lobby on, with Join presses, /leave,
\* Start, the description phase with every player describing in time, one
\* /votekick with its button and /forcequit, in a guild with either settings.
InitKick ==
    /\ Start
    /\ limit = Scenario(ScenarioGames, ScenarioGames, MaxJoins, MaxLeaves, 0)

NextKick ==
    \/ \E h \in 1..MaxPlays : PlayCheck(h)
    \/ \E h \in 1..MaxPlays : PlayCreate(h)
    \/ \E g \in GameIds, p \in Players : Join(g, p)
    \/ \E p \in Players : LeaveRemove(p)
    \/ \E p \in Players : LeaveCheck(p)
    \/ \E t \in 1..MaxStarts, g \in GameIds : StartPress(t, g)
    \/ \E t \in 1..MaxStarts : StartGame(t)
    \/ \E k \in 1..MaxKicks, u \in Players, p \in Players : VoteKick(k, u, p)
    \/ \E k \in 1..MaxKicks, u \in Players : KickVote(k, u)
    \/ \E k \in 1..MaxKicks : KickCheck(k)
    \/ \E t \in 1..MaxStarts : BeginPhase(t)
    \/ \E t \in 1..MaxStarts : BeginRound(t)
    \/ \E t \in 1..MaxStarts : Describe(t)
    \/ ForceQuit

SpecKick == InitKick /\ [][NextKick]_vars

\* The large-game scenario: a lobby of one to MaxRoster players (users
\* 1..n, in the order they joined), two rounds in which every player describes
\* in time, and /leave of the users 1..NumPlayers at any moment.
InitLarge ==
    /\ settings = [DefaultSettings EXCEPT !.rounds = 2]
    /\ limit = Scenario(ScenarioGames, ScenarioGames, 0, MaxLeaves, 0)
    /\ games = 1
    /\ used_channels = TRUE
    /\ play = [h \in 1..MaxPlays |-> IF h = 1 THEN "created" ELSE "idle"]
    /\ sched = [t \in 1..MaxStarts |-> NoTask]
    /\ timers = [g \in GameIds |-> <<>>]
    /\ dropdown = {}
    /\ cb = [g \in GameIds |-> {}]
    /\ tally = [g \in GameIds |-> NoTally]
    /\ leaving = [p \in Players |-> NoGame]
    /\ kick = [k \in 1..MaxKicks |-> NoView]
    /\ hist = NoHistory
    /\ \E n \in 1..MaxRoster :
          game = [g \in GameIds |->
                    IF g = 1
                    THEN [NewGameState EXCEPT !.channel_id = Room,
                                              !.joined_users = [i \in 1..n |-> i]]
                    ELSE NewGameState]

NextLarge ==
    \/ \E p \in Players : LeaveRemove(p)
    \/ \E p \in Players : LeaveCheck(p)
    \/ \E t \in 1..MaxStarts, g \in GameIds : StartPress(t, g)
    \/ \E t \in 1..MaxStarts : StartGame(t)
    \/ \E t \in 1..MaxStarts : BeginPhase(t)
    \/ \E t \in 1..MaxStarts : BeginRound(t)
    \/ \E t \in 1..MaxStarts : Describe(t)

SpecLarge == InitLarge /\ [][NextLarge]_vars

\* The large vote-kick scenario: the lobby of InitLarge is started, and the
\* users 1..NumPlayers open a vote-kick, vote on it and leave at any moment.
NextKickLarge ==
    \/ \E t \in 1..MaxStarts, g \in GameIds : StartPress(t, g)
    \/ \E t \in 1..MaxStarts : StartGame(t)
    \/ \E p \in Players : LeaveRemove(p)
    \/ \E p \in Players : LeaveCheck(p)
    \/ \E k \in 1..MaxKicks, u \in Players, p \in Players : VoteKick(k, u, p)
    \/ \E k \in 1..MaxKicks, u \in Players : KickVote(k, u)
    \/ \E k \in 1..MaxKicks : KickCheck(k)

SpecKickLarge == InitLarge /\ [][NextKickLarge]_vars

\* /settings: update_server_settings on the guild's settings, starting from
\* the defaults, with any of the four validated names given and values on both
\* sides of every limit; save_config may fail (it returns False on any
\* exception of the file write).
SettingKeys == {"min_players", "max_players", "description_timeout", "vote_timeout"}
SettingValues == {1, 3, 5, 10, 12}

InitSettings ==
    /\ Idle
    /\ game = [g \in GameIds |-> NewGameState]
    /\ settings = DefaultSettings
    /\ limit = Scenario(0, 0, 0, 0, 0)

\* update_server_settings(server_id, **kwargs), with the outcome of save_config
UpdateSettings(kwargs, saved) ==
    LET refusal == update_refusal(settings, kwargs)
    IN  /\ IF refusal # ""
           THEN /\ hist' = [hist EXCEPT !.updated = refusal]
                /\ UNCHANGED settings
           ELSE /\ settings' = apply_update(settings, kwargs)
                /\ hist' = [hist EXCEPT !.updated = IF saved THEN "ok"
                                                     ELSE "save_failed"]
        /\ UNCHANGED <<games, used_channels, game, limit, play, sched, timers,
                       dropdown, cb, tally, leaving, kick>>

NextSettings ==
    \E ks \in SUBSET SettingKeys : \E kwargs \in [ks -> SettingValues] :
        \E saved \in BOOLEAN : UpdateSettings(kwargs, saved)

SpecSettings == InitSettings /\ [][NextSettings]_vars

----------------------------------------------------------------------------
\* Claims

\* the player occurs nowhere in the game state remove_player is to clean
Absent(gs, p) ==
    /\ ~InList(gs.joined_users, p)
    /\ p \notin gs.imposters
    /\ p \notin DOMAIN gs.user_descriptions
    /\ p \notin DOMAIN gs.votes
    /\ p \notin Values(gs.votes)
    /\ p \notin DOMAIN gs.missed_rounds
    /\ p \notin gs.voted_users

\* C1: right after remove_player(p) returns, p is in none of joined_users,
\* imposters, the keys of user_descriptions, the keys and the values of votes,
\* the keys of missed_rounds, voted_users -- after any sequence of calls.
C1_RemovedIsAbsent ==
    hist.removed # None => Absent(game[1], hist.removed)

\* a second call in a row has returned, and other players and votes remain
C1_Witness ==
    /\ hist.removed # None
    /\ hist.leaves >= 2
    /\ Len(game[1].joined_users) >= 1
    /\ DOMAIN game[1].votes # {}

\* C2: when tally_votes has been invoked more than once for a game and every
\* invocation has returned, exactly one outcome was announced and end_game was
\* called exactly once by the tally.
C2_TallyExactlyOnce ==
    \A g \in GameIds :
        (hist.invoked[g] >= 2 /\ tally[g].pc \in {"done", "crashed"})
            => (hist.announced[g] = 1 /\ hist.ended[g] = 1)

\* C3: once the vote timer of a game whose vote is open has elapsed, the votes
\* are tallied: an elapsed timer never leaves the registered, started game
\* untallied.
C3_TimerTallies ==
    \A g \in GameIds : \A i \in 1..Len(timers[g]) :
        (timers[g][i] \in {"fired", "fired_error"} /\ games = g /\ game[g].game_started)
            => game[g].votes_tallied = "true"

\* C4: a create_game call succeeds only when the room holds no game, and then
\* registers its own; it fails with the already-active error only when the
\* room holds a game, which it leaves registered.  So of two calls that both
\* found the room free, one succeeds and the other fails.
C4_CreateExclusive ==
    [][\A h \in 1..MaxPlays :
          /\ (play[h] = "checked" /\ play'[h] = "created")
                => (games = NoGame /\ games' = h /\ used_channels')
          /\ (play[h] = "checked" /\ play'[h] = "error")
                => (games # NoGame /\ games' = games)]_vars

\* two /play passed can_create_game together: one created, the other failed
C4_Witness ==
    /\ play[1] = "created"
    /\ play[2] = "error"
    /\ games = 1

\* the turn scheduler of the task runs (roles assigned, phase not complete)
Running(t) == sched[t].pc \in {"started", "round", "waiting"}

\* C5: a room has at most one game in progress: the turn schedulers that run
\* on started games of the room all run on the same game.
C5_OneGameInProgress ==
    \A t1, t2 \in 1..MaxStarts :
        (/\ Running(t1) /\ game[sched[t1].game].game_started
         /\ Running(t2) /\ game[sched[t2].game].game_started)
            => sched[t1].game = sched[t2].game

\* C6: for a given GameState the body of start_game that assigns the roles runs
\* at most once, and at most one description phase is started.
C6_RolesAssignedOnce ==
    \A g \in GameIds : hist.starts[g] <= 1 /\ hist.phases[g] <= 1

\* C7: a player who has left (and is not back in the roster) has no
\* description and no missed-round count: remove_player deleted them, and the
\* scheduler records nothing for the player afterwards.
C7_NoTurnForRemoved ==
    \A g \in GameIds : \A p \in game[g].left_users :
        ~InList(game[g].joined_users, p)
            => (p \notin DOMAIN game[g].user_descriptions
                /\ p \notin DOMAIN game[g].missed_rounds)

\* C8: when tally_votes counts the votes, every vote target is in joined_users.
C8_TargetsInRoster ==
    \A g \in GameIds : tally[g].stale = {}

\* C9: no step records or changes a vote of a user who is not in joined_users:
\* such a user's entry in votes and membership of voted_users are not added.
C9_NonMemberVoteRejected ==
    [][\A g \in GameIds, u \in Players :
          ~InList(game[g].joined_users, u)
              => /\ u \in DOMAIN game'[g].votes
                      => (u \in DOMAIN game[g].votes
                          /\ game'[g].votes[u] = game[g].votes[u])
                 /\ u \in game'[g].voted_users => u \in game[g].voted_users]_vars

\* a user who left the game of the open vote was told "You're not part of this game!"
C9_Witness ==
    /\ "not_in_game" \in hist.refused
    /\ games # NoGame
    /\ game[games].vote_task # None
    /\ game[games].left_users # {}

\* C10: a recorded vote is never replaced: as long as a voter has an entry in
\* votes, its target stays the same.
C10_VoteNotReplaced ==
    [][\A g \in GameIds, u \in Players :
          (u \in DOMAIN game[g].votes /\ u \in DOMAIN game'[g].votes)
              => game'[g].votes[u] = game[g].votes[u]]_vars

\* a second cast was answered "You've already voted!" while the vote is open
C10_Witness ==
    /\ "already_voted" \in hist.refused
    /\ games # NoGame
    /\ DOMAIN game[games].votes # {}

\* C11: when a dropdown callback of the registered, started game reaches its
\* check after recording a vote and voted_users is as large as the roster (a
\* roster of at least min_players), the votes are tallied in that step and no
\* vote timer of the game stays asleep.
C11_EarlyTally ==
    [][\A g \in GameIds, u \in Players :
          (/\ u \in cb[g] /\ u \notin cb'[g]
           /\ games = g /\ game[g].game_started
           /\ Len(game[g].joined_users) >= settings.min_players
           /\ Cardinality(game[g].voted_users) = Len(game[g].joined_users))
              => /\ game'[g].votes_tallied = "true"
                 /\ \A i \in 1..Len(timers'[g]) : timers'[g][i] # "sleeping"]_vars

\* the votes for target t in a vote map
VotesFor(votes, t) == Cardinality({k \in DOMAIN votes : votes[k] = t})

\* C12: with at least one vote, the announced outcome is "caught" exactly when
\* one target has strictly more votes than every other target and that target
\* is an imposter; otherwise it is "imposters win".
C12_Outcome ==
    \A g \in GameIds :
        (tally[g].pc = "sent" /\ DOMAIN game[g].votes # {})
            => /\ tally[g].outcome \in {"caught", "imposters_win"}
               /\ tally[g].outcome = "caught"
                    <=> \E t \in game[g].imposters :
                           \A u \in Players \ {t} :
                               VotesFor(game[g].votes, u) < VotesFor(game[g].votes, t)

\* a tie for the most votes that includes an imposter: the imposters win
C12_Witness ==
    /\ tally[1].pc = "sent"
    /\ tally[1].outcome = "imposters_win"
    /\ Cardinality(tally[1].voted_players) = 2
    /\ tally[1].voted_players \cap game[1].imposters # {}

\* C13: a tally called with no recorded vote reports the no-votes outcome and
\* no winner, reveals nothing, and once it has returned the room holds no game.
C13_NoVotes ==
    /\ [][\A g \in GameIds :
            (tally[g].pc = "none" /\ tally'[g].pc # "none"
             /\ DOMAIN game[g].votes = {})
                => (tally'[g].pc = "sent" /\ tally'[g].outcome = "no_votes"
                    /\ hist'.announced[g] = 1)]_vars
    /\ [](\A g \in GameIds :
            tally[g].outcome = "no_votes"
                => /\ tally[g].pc \in {"sent", "done"}
                   /\ tally[g].revealed = {}
                   /\ tally[g].pc = "done" => (games = NoGame /\ ~used_channels))

\* a no-votes tally has returned, and the room holds no game
C13_Witness ==
    /\ tally[1].outcome = "no_votes"
    /\ tally[1].pc = "done"
    /\ hist.ended[1] = 1
    /\ games = NoGame
    /\ game[1].votes_tallied = "true"

\* C14: in every state of every game, voted_users is the set of keys of votes.
C14_VotedUsersAreVoters ==
    \A g \in GameIds : game[g].voted_users = DOMAIN game[g].votes

\* C15: in every state of the registered game in which no /leave handler is
\* under way, a player is in at most one of joined_users, kicked_users and
\* left_users.
C15_RosterKickedLeftDisjoint ==
    \A g \in GameIds :
        (games = g /\ \A p \in Players : leaving[p] = NoGame)
            => /\ ListSet(game[g].joined_users) \cap game[g].kicked_users = {}
               /\ ListSet(game[g].joined_users) \cap game[g].left_users = {}
               /\ game[g].kicked_users \cap game[g].left_users = {}

\* C16: in every state of a started game, every imposter is in joined_users.
C16_ImpostersInRoster ==
    \A g \in GameIds :
        game[g].game_started => game[g].imposters \subseteq ListSet(game[g].joined_users)

\* C17: while a game whose roles are assigned is registered and in its
\* description or voting phase, with a roster of at least min_players, it has
\* at least one imposter.
C17_SomeImposter ==
    \A g \in GameIds :
        (/\ games = g /\ game[g].game_started /\ game[g].current_word # None
         /\ game[g].description_phase_started
         /\ Len(game[g].joined_users) >= settings.min_players)
            => game[g].imposters # {}

\* C18: the results of a tally with at least one vote reveal the imposter set
\* as start_game assigned it, whatever the outcome (looked at when they are
\* sent, the game still registered and no /leave handler under way).
C18_RevealsAssigned ==
    \A g \in GameIds :
        (/\ tally[g].pc = "sent"
         /\ tally[g].outcome \in {"caught", "imposters_win"}
         /\ games = g
         /\ \A p \in Players : leaving[p] = NoGame)
            => tally[g].revealed = hist.assigned[g]

\* C19: when the description phase of the registered game has finished and
\* inactivity removals (no /leave was issued) have left fewer than min_players
\* players, the game has been ended, or at least /vote is refused for it.
C19_EndedWhenTooFew ==
    \A t \in 1..MaxStarts :
        (/\ sched[t].pc = "done"
         /\ hist.leaves = 0
         /\ games = sched[t].game
         /\ Len(game[sched[t].game].joined_users) < settings.min_players)
            => vote_refused

\* C20: a step that ends the registered game leaves the room without a game
\* and free for create_game, and the timer the game's vote_task names is no
\* longer asleep; an end_game call (here: the last line of tally_votes) always
\* leaves the room without a game, and when the room holds none already it
\* changes nothing of the registry, the game objects and the timers.
C20_EndGame ==
    [][/\ (games # NoGame /\ games' = NoGame)
            => /\ ~used_channels'
               /\ game[games].vote_task # None
                    => timers'[games][game[games].vote_task] # "sleeping"
       /\ \A g \in GameIds :
            (tally[g].pc = "sent" /\ tally'[g].pc = "done")
                => /\ games' = NoGame
                   /\ ~used_channels'
                   /\ games = NoGame
                        => UNCHANGED <<games, used_channels, game, timers>>]_vars

\* a /leave ended the game while its vote timer was asleep: the timer is
\* cancelled although no dropdown callback cancelled it
C20_Witness ==
    /\ games = NoGame
    /\ play[1] = "created"
    /\ hist.invoked[1] = 0
    /\ Len(timers[1]) = 1
    /\ timers[1][1] = "cancelled"

C22_MinAtMostMax ==
    settings.min_players <= settings.max_players

\* both limits were moved above the default maximum by successful updates, the
\* minimum up to the maximum
C22_Witness ==
    /\ hist.updated = "ok"
    /\ settings.min_players = 12
    /\ settings.max_players = 12

\* C23: an update_server_settings call that returns a failure leaves every
\* field of the settings as it was.
C23_FailedUpdateUnchanged ==
    [][hist'.updated # "ok" => settings' = settings]_vars

\* C24: the timeout of the turns of a description phase is computed when the
\* phase starts as description_timeout plus ten seconds for every player above
\* five in the roster at that moment, and is the timeout of every turn of the
\* phase: 90 for 60 and eight players, 60 for three, never below
\* description_timeout.
C24_TurnTimeout ==
    [][\A t \in 1..MaxStarts :
          LET n == Len(game[sched[t].game].joined_users)
              d == settings.description_timeout
              a == sched'[t].adjusted_timeout
          IN  /\ (sched[t].pc = "started" /\ sched'[t].pc = "round")
                 => /\ a = IF n > 5 THEN d + (n - 5) * 10 ELSE d
                    /\ a >= d
                    /\ (d = 60 /\ n = 8) => a = 90
                    /\ (d = 60 /\ n = 3) => a = 60
              /\ (sched[t].pc \in {"round", "waiting"})
                 => a = sched[t].adjusted_timeout]_vars

\* a turn of a phase started with eight players is waited for with 90 seconds
C24_Witness ==
    /\ sched[1].pc = "waiting"
    /\ sched[1].player_count = 8
    /\ sched[1].adjusted_timeout = 90

\* C30: the timeout of the turns of a round is the one of the roster at the
\* start of that round: description_timeout plus ten seconds for every player
\* above five in the roster from which the round's order is drawn.
C30_TimeoutPerRound ==
    [][\A t \in 1..MaxStarts :
          LET g == sched[t].game
              n == Len(game[g].joined_users)
              d == settings.description_timeout
          IN  (/\ sched[t].pc = "round"
               /\ sched'[t].pc = "waiting"
               /\ games = g
               /\ \A p \in Players : leaving[p] = NoGame)
              => sched'[t].adjusted_timeout = d + max(0, (n - 5) * 10)]_vars

\* C25: no user id occurs twice in the joined_users of a game, whatever Join
\* presses, leaves and kicks have happened.
C25_RosterUnique ==
    \A g \in GameIds :
        \A i, j \in 1..Len(game[g].joined_users) :
            game[g].joined_users[i] = game[g].joined_users[j] => i = j

\* a player who left and joined again is in the roster, and another was kicked
C25_Witness ==
    /\ game[1].kicked_users # {}
    /\ \E p \in game[1].left_users : InList(game[1].joined_users, p)

\* the roster check of a /leave or vote-kick handler of game g finds fewer than
\* min_players players
FoundTooFew(g) == Len(game[g].joined_users) < settings.min_players

\* the game of the room is announced as ending and is out of the registry,
\* the object that was registered reset
EndedBy(g) ==
    /\ g \in hist'.ending
    /\ games' = NoGame
    /\ ~used_channels'
    /\ games # NoGame => game'[games] = reset(game[games])

C27_MissedRounds ==
    /\ [](\A g \in GameIds : \A p \in ListSet(game[g].joined_users) :
            DictGet(game[g].missed_rounds, p, 0) < settings.max_missed_rounds)
    /\ [][\A t \in 1..MaxStarts :
            LET g == sched[t].game
                pid == sched[t].player_id
                n == DictGet(game[g].missed_rounds, pid, 0) + 1
            IN  (sched[t].pc = "waiting" /\ sched'[t] # sched[t]
                 /\ game'[g].missed_rounds # game[g].missed_rounds)
                => /\ game'[g].missed_rounds = DictPut(game[g].missed_rounds, pid, n)
                   /\ InList(game'[g].joined_users, pid)
                      <=> (InList(game[g].joined_users, pid)
                           /\ n < settings.max_missed_rounds)
                   /\ \A q \in Players \ {pid} :
                        InList(game'[g].joined_users, q)
                        <=> InList(game[g].joined_users, q)]_vars

\* C26: a description phase that has started goes on to announce
\* "Description phase complete! Use /vote to start voting!", provided every
\* wait for a description ends, whatever leaves and removals happen meanwhile
\* (unless the game has been ended in between).
C26_PhaseCompletes ==
    \A t \in 1..MaxStarts :
        (sched[t].pc = "round")
        ~> (sched[t].pc = "done" \/ games # sched[t].game)

\* the players of the round's snapshot the loop has passed without waiting
Skipped(task) == task.snapshot \ (task.turns \cup task.players)

\* C29: in a round of a description phase nobody is waited for twice; the
\* player waited for is in the round's snapshot and in the roster; a player of
\* the snapshot is passed over only when not in the roster; and when the round
\* ends every player of its snapshot has been reached.
C29_OneTurnPerRound ==
    [][\A t \in 1..MaxStarts :
          LET g == sched[t].game
              now == sched[t]
              next == sched'[t]
              same == now.pc = "waiting"
          IN  /\ (next # now /\ next.pc = "waiting")
                 => /\ next.player_id \in next.snapshot
                    /\ InList(game'[g].joined_users, next.player_id)
                    /\ same => next.player_id \notin now.turns
                    /\ next.turns = (IF same THEN now.turns ELSE {})
                                       \cup {next.player_id}
              /\ (next # now /\ next.pc \in {"waiting", "round"}
                  /\ now.pc \in {"waiting", "round"})
                 => \A x \in Skipped(next) \ (IF same THEN Skipped(now) ELSE {}) :
                       ~InList(game'[g].joined_users, x)
              /\ (now.pc \in {"round", "waiting"} /\ next.round_num = now.round_num + 1)
                 => next.players = {}]_vars

\* a round of three players has ended with two of them waited for, the third
\* having left before being reached
C29_Witness ==
    /\ sched[1].pc \in {"round", "done"}
    /\ sched[1].round_num >= 1
    /\ Cardinality(sched[1].snapshot) = 3
    /\ Cardinality(sched[1].turns) = 2
    /\ Cardinality(Skipped(sched[1])) = 1
    /\ game[1].game_started

\* C31: while the turn scheduler of a registered game is in its rounds, the
\* game has no vote timer and no recorded vote.
C31_VoteAfterPhase ==
    \A t \in 1..MaxStarts :
        LET g == sched[t].game
        IN  (sched[t].pc \in {"round", "waiting"} /\ games = g)
            => /\ timers[g] = <<>>
               /\ DOMAIN game[g].votes = {}

\* C32: the end_game at the end of a game's tally, or of the timeout of its
\* view, takes no other game than that one out of the registry.
C32_EndsOwnGame ==
    [][\A g \in GameIds :
          (\/ tally[g].pc = "sent" /\ tally'[g].pc = "done"
           \/ play[g] = "created" /\ play'[g] = "expired")
          => (games' = games \/ games = g)]_vars

\* C33: when start_game assigns the roles of a game, the game is registered
\* and its roster has at least min_players players.
C33_StartOnFullRoster ==
    [][\A t \in 1..MaxStarts :
          (sched[t].pc = "deferred" /\ sched'[t].pc = "started")
          => /\ games = sched[t].game
             /\ Len(game[sched[t].game].joined_users) >= settings.min_players]_vars

\* C34: a game has at most one vote timer asleep at any time.
C34_OneVoteTimer ==
    \A g \in GameIds :
        Cardinality({i \in 1..Len(timers[g]) : timers[g][i] = "sleeping"}) <= 1

\* C35: a vote-kick view opened on a roster of n players requires
\* max(2, n \div 2) votes and keeps that number; each vote it counts is of a
\* player in the roster at that moment who had not voted on it; and it removes
\* its target only with that many votes counted and the target not yet kicked.
C35_KickByEnoughVotes ==
    [][\A k \in 1..MaxKicks :
          LET view == kick[k]
              n == Len(game[games].joined_users)
          IN  /\ (view.pc = "none" /\ kick'[k].pc = "open")
                 => kick'[k].required_votes = IF n \div 2 > 2 THEN n \div 2 ELSE 2
              /\ view.pc # "none"
                 => /\ kick'[k].required_votes = view.required_votes
                    /\ view.votes \subseteq kick'[k].votes
                    /\ Cardinality(kick'[k].votes) <= Cardinality(view.votes) + 1
                    /\ kick'[k].votes \ view.votes
                          \subseteq ListSet(game[view.game].joined_users)
              /\ (view.pc # "none" /\ hist'.kicks # hist.kicks /\ kick'[k] # view)
                 => /\ Cardinality(kick'[k].votes) >= view.required_votes
                    /\ view.target_id \notin game[view.game].kicked_users
                    /\ view.target_id \in game'[view.game].kicked_users]_vars

\* a view that required three votes has removed its target, and a player who
\* had voted on it has left
C35_Witness ==
    /\ kick[1].pc = "stopped"
    /\ kick[1].required_votes = 3
    /\ Cardinality(kick[1].votes) = 3
    /\ kick[1].target_id \in game[1].kicked_users
    /\ hist.leaves = 1

\* C36: the room is in used_channels exactly when it is a key of games, that
\* is, when a game is registered for it.
C36_UsedChannelsAreKeys == used_channels <=> (games # NoGame)

\* both games were created and neither is registered: the first was removed by
\* /forcequit, the second by the end_game of a /leave handler
C36_Witness ==
    /\ games = NoGame
    /\ ~used_channels
    /\ \A h \in 1..MaxPlays : play[h] = "created"
    /\ hist.ending = {2}

====
